---- MODULE Spec2Model ----
(***************************************************************************)
(* Model of app.py, the Streamlit dashboard of the repository: the cached  *)
(* load of the CSV dataset, the sidebar widgets that make the filter       *)
(* criteria, the filter over the loaded DataFrame, the grouped counts of   *)
(* the three tabs, the top-10 views, the text sample and the CSV export.   *)
(*                                                                         *)
(* Streamlit runs the whole script from top to bottom on the first visit   *)
(* and again after every widget interaction, so one script run is one      *)
(* action (Run); each widget interaction is an action that stores the new  *)
(* widget value and schedules the rerun.                                   *)
(***************************************************************************)
EXTENDS Integers, Sequences, FiniteSets, TLC

\* ---------------------------------------------------------------- bounds
\* Longest dataset built from the varied records.
MaxRows == 2
\* Longest dataset built from the two bulk records (more rows than the sample).
MaxBulkRows == 6
\* Calendar days are 1..MaxDay.
MaxDay == 2

\* ------------------------------------------------------ program constants
\* head(10) of the top stakeholders / top MSLs.
TopN == 10
\* min(5, len(filtered_data)) of the text sample.
SampleMax == 5
\* timedelta(days=365) of the default start date of an empty dataset.
YearDays == 365

\* ----------------------------------------------------------------- values
\* pandas' missing value of an object column (float nan).
NaN == "<NaN>"
\* The sentinel the script puts in front of every selector's options.
All == "All"

\* The strings of the model in ascending lexical (code point) order, as
\* Python's sorted() and pandas' groupby order them.
Lexicon ==
  << "2024-01", "2024-02", "2024-03", "A", "B", "Call", "Email", "FR", "HCP",
     "KOL", "M", "N", "US" >>

LexRank(s) == CHOOSE i \in 1..Len(Lexicon) : Lexicon[i] = s

LexLess(a, b) == LexRank(a) < LexRank(b)

Range(s) == { s[i] : i \in 1..Len(s) }

Min(a, b) == IF a <= b THEN a ELSE b

\* ------------------------------------------------------------- timestamps
\* A pandas Timestamp: a calendar day and a time of day (0 is midnight).
TimesOfDay == {0, 1}

Days == 1..MaxDay

\* pd.Timestamp(date): midnight of that day.
Timestamp(date) == [day |-> date, tod |-> 0]

\* Timestamp.date(): the calendar day, the time of day dropped.
date(ts) == ts.day

\* Timestamp <= Timestamp.
TsLe(a, b) == a.day < b.day \/ (a.day = b.day /\ a.tod <= b.tod)

\* Timestamp >= Timestamp.
TsGe(a, b) == TsLe(b, a)

\* The months of the model's calendar, in order.
YearMonths == << "2024-01", "2024-02", "2024-03" >>

\* Series.dt.strftime('%Y-%m'): the month of the day; a month of the model's
\* calendar has two days, the first month one (it starts on day 1).
strftime_Ym(ts) == YearMonths[(ts.day \div 2) + 1]

\* datetime.now().date(), a day after every day of the dataset.
Today == MaxDay + 1

\* ------------------------------------------------------------- dataframes
ExpectedColumns ==
  << "occurrence_date", "country", "therapeutic_area_names", "interaction_type",
     "stakeholder_type", "asset_names", "stakeholder_names", "msl_names", "text" >>

\* A DataFrame: its column names and its rows in index order. A row carries the
\* columns the script reads.
DataFrame(cols, rs) == [columns |-> cols, rows |-> rs]

\* A name not bound to any DataFrame.
NoFrame == DataFrame(<< >>, << >>)

\* DataFrame.empty
empty(df) == Len(df.rows) = 0

BaseRow ==
  [ occurrence_date |-> [day |-> 1, tod |-> 0], country |-> "FR",
    stakeholder_type |-> "HCP", interaction_type |-> "Call",
    stakeholder_names |-> "A", msl_names |-> "M" ]

\* The records of the varied datasets: the base record and every record that
\* differs from it in one column.
VariedRows ==
  {BaseRow}
  \cup { [BaseRow EXCEPT !.occurrence_date = [day |-> d, tod |-> t]] :
           d \in Days, t \in TimesOfDay }
  \cup { [BaseRow EXCEPT !.country = v] : v \in {"US", NaN} }
  \cup { [BaseRow EXCEPT !.stakeholder_type = v] : v \in {"KOL", NaN} }
  \cup { [BaseRow EXCEPT !.interaction_type = v] : v \in {"Email", NaN} }
  \cup { [BaseRow EXCEPT !.stakeholder_names = v] : v \in {"B"} }
  \cup { [BaseRow EXCEPT !.msl_names = v] : v \in {"N"} }

\* The records of the bulk datasets: the base record on the first and last day.
BulkRows ==
  { [BaseRow EXCEPT !.occurrence_date = [day |-> d, tod |-> 0]] : d \in {1, MaxDay} }

SeqsUpTo(S, n) == UNION { [1..k -> S] : k \in 0..n }

\* honeypot_data_Marvel.csv as the process finds it: absent, not parseable as
\* CSV, with a date pandas cannot parse, or a table of records.
Files ==
  { [kind |-> k, rows |-> << >>] : k \in {"missing", "garbled", "baddate"} }
  \cup { [kind |-> "ok", rows |-> rs] : rs \in SeqsUpTo(VariedRows, MaxRows) }
  \cup { [kind |-> "ok", rows |-> rs] : rs \in SeqsUpTo(BulkRows, MaxBulkRows) }

\* ------------------------------------------------------------------- load
\* pd.read_csv: raises when the file is absent or is not CSV.
read_csv(f) ==
  IF f.kind \in {"missing", "garbled"}
  THEN [raised |-> TRUE, value |-> NoFrame]
  ELSE [raised |-> FALSE, value |-> DataFrame(ExpectedColumns, f.rows)]

\* pd.to_datetime over the occurrence_date column: raises on a date it cannot
\* parse.
to_datetime(f, df) ==
  IF f.kind = "baddate"
  THEN [raised |-> TRUE, value |-> NoFrame]
  ELSE [raised |-> FALSE, value |-> df]

\* The except branch of load_data: st.error and an empty DataFrame with the
\* expected columns.
load_fallback ==
  [raised |-> FALSE, value |-> DataFrame(ExpectedColumns, << >>), error_shown |-> TRUE]

\* load_data with the date conversion outside the try block.
load_data_unguarded(f) ==
  LET r == read_csv(f) IN
  IF r.raised THEN load_fallback
  ELSE LET c == to_datetime(f, r.value) IN
       [raised |-> c.raised, value |-> c.value, error_shown |-> FALSE]

\* load_data: read, convert the dates, fall back on any exception.
load_data(f) ==
  LET r == read_csv(f) IN
  IF r.raised THEN load_fallback
  ELSE LET c == to_datetime(f, r.value) IN
       IF c.raised THEN load_fallback
       ELSE [raised |-> FALSE, value |-> c.value, error_shown |-> FALSE]

\* st.cache_data before the first call.
NoCache == [hit |-> FALSE, value |-> NoFrame, error_shown |-> FALSE]

\* @st.cache_data: the first call runs load_data and stores what it returned
\* and the elements it showed; later calls replay them. A call that raises
\* stores nothing.
cached_load_data(c, f) ==
  IF c.hit THEN [raised |-> FALSE, value |-> c.value, error_shown |-> c.error_shown]
  ELSE load_data(f)

\* ---------------------------------------------------------------- sidebar
\* Series.min() of occurrence_date.
MinTs(rows) == CHOOSE m \in Range(rows) : \A x \in Range(rows) : TsLe(m, x)

\* Series.max() of occurrence_date.
MaxTs(rows) == CHOOSE m \in Range(rows) : \A x \in Range(rows) : TsLe(x, m)

min_date(df) ==
  IF ~empty(df)
  THEN date(MinTs([i \in 1..Len(df.rows) |-> df.rows[i].occurrence_date]))
  ELSE Today - YearDays

max_date(df) ==
  IF ~empty(df)
  THEN date(MaxTs([i \in 1..Len(df.rows) |-> df.rows[i].occurrence_date]))
  ELSE Today

\* st.date_input that forgets what the user entered.
date_input_default(fresh, stored, value) == value

\* st.date_input(label, value): the default on the session's first run, then
\* what the user last entered.
date_input(fresh, stored, value) == IF fresh THEN value ELSE stored

\* Series.unique(): the distinct values of a column, nan among them once.
unique(df, col) == { df.rows[i][col] : i \in 1..Len(df.rows) }

\* sorted(list) raises TypeError when it has to compare nan with a str.
sorted_raises(S) == NaN \in S /\ Cardinality(S) >= 2

RECURSIVE sorted(_)
\* sorted(list) of strings, ascending.
sorted(S) ==
  IF S = {} THEN << >>
  ELSE IF S = {NaN} THEN << NaN >>
  ELSE LET m == CHOOSE x \in S : \A y \in S \ {x} : LexLess(x, y)
       IN << m >> \o sorted(S \ {m})

\* ['All'] + sorted(data[col].unique().tolist())
selector_options(df, col) == << All >> \o sorted(unique(df, col))

\* st.selectbox(label, options): the first option until the user picks one.
selectbox(stored, options) == stored

\* The sidebar of one run: the date inputs, then the three selectors in the
\* script's order; the run stops at the first selector whose options cannot be
\* sorted.
Sidebar(df, w) ==
  LET sd == date_input(w.fresh, w.start, min_date(df))
      ed == date_input(w.fresh, w.end, max_date(df))
      base == [ raised |-> FALSE, start |-> sd, end |-> ed,
                start_date |-> Timestamp(sd), end_date |-> Timestamp(ed),
                selected_country |-> All, selected_stakeholder_type |-> All,
                selected_interaction_type |-> All,
                countries |-> << >>, stakeholder_types |-> << >>,
                interaction_types |-> << >> ]
  IN IF empty(df) THEN [base EXCEPT !.interaction_types = << All >>]
     ELSE IF sorted_raises(unique(df, "country")) THEN [base EXCEPT !.raised = TRUE]
     ELSE LET c == selector_options(df, "country")
              b1 == [base EXCEPT !.countries = c,
                                 !.selected_country = selectbox(w.country, c)]
          IN IF sorted_raises(unique(df, "stakeholder_type"))
             THEN [b1 EXCEPT !.raised = TRUE]
             ELSE LET s == selector_options(df, "stakeholder_type")
                      b2 == [b1 EXCEPT !.stakeholder_types = s,
                                       !.selected_stakeholder_type =
                                          selectbox(w.stakeholder_type, s)]
                  IN IF sorted_raises(unique(df, "interaction_type"))
                     THEN [b2 EXCEPT !.raised = TRUE]
                     ELSE LET t == selector_options(df, "interaction_type")
                          IN [b2 EXCEPT !.interaction_types = t,
                                        !.selected_interaction_type =
                                           selectbox(w.interaction_type, t)]

\* ----------------------------------------------------------------- filter
\* Elementwise ==: nan equals nothing, itself included.
Eq(v, x) == v # NaN /\ x # NaN /\ v = x

\* The date mask with the end bound exclusive.
DateMask_exclusive(df, start_date, end_date) ==
  [i \in 1..Len(df.rows) |->
     /\ TsGe(df.rows[i].occurrence_date, start_date)
     /\ TsLe(df.rows[i].occurrence_date, end_date)
     /\ df.rows[i].occurrence_date # end_date]

\* (df['occurrence_date'] >= start_date) & (df['occurrence_date'] <= end_date)
DateMask(df, start_date, end_date) ==
  [i \in 1..Len(df.rows) |->
     /\ TsGe(df.rows[i].occurrence_date, start_date)
     /\ TsLe(df.rows[i].occurrence_date, end_date)]

\* df[col] == selected
EqMask(df, col, selected) ==
  [i \in 1..Len(df.rows) |-> Eq(df.rows[i][col], selected)]

RECURSIVE MaskedRows(_, _)
MaskedRows(rows, mask) ==
  IF rows = << >> THEN << >>
  ELSE (IF Head(mask) THEN << Head(rows) >> ELSE << >>)
       \o MaskedRows(Tail(rows), Tail(mask))

\* df[mask]: a new DataFrame with the rows the mask keeps, in order.
getitem(df, mask) == DataFrame(df.columns, MaskedRows(df.rows, mask))

\* The objects of one run: h.raw is the DataFrame bound to data, h.flt the one
\* bound to filtered_data.

\* filtered_data = data.copy()
copy(h) == [h EXCEPT !.flt = h.raw]

\* filtered_data = filtered_data[date mask]
filter_date(h, start_date, end_date) ==
  [h EXCEPT !.flt = getitem(h.flt, DateMask(h.flt, start_date, end_date))]

\* if selected != 'All': filtered_data = filtered_data[filtered_data[col] == selected]
filter_selected(h, col, selected) ==
  IF selected # All
  THEN [h EXCEPT !.flt = getitem(h.flt, EqMask(h.flt, col, selected))]
  ELSE h

\* Lines 81 to 97 of the script.
FilterStage(h, sb) ==
  filter_selected(
    filter_selected(
      filter_selected(
        filter_date(copy(h), sb.start_date, sb.end_date),
        "country", sb.selected_country),
      "stakeholder_type", sb.selected_stakeholder_type),
    "interaction_type", sb.selected_interaction_type)

\* ------------------------------------------------------------ aggregates
\* filtered_data['year_month'] = ...strftime('%Y-%m') with filtered_data a view
\* of data: the column lands in both objects.
assign_year_month_view(h) ==
  LET with(df) ==
        DataFrame(Append(df.columns, "year_month"),
                  [i \in 1..Len(df.rows) |->
                     [c \in DOMAIN df.rows[i] \cup {"year_month"} |->
                        IF c = "year_month" THEN strftime_Ym(df.rows[i].occurrence_date)
                        ELSE df.rows[i][c]]])
  IN [h EXCEPT !.flt = with(h.flt), !.raw = with(h.raw)]

\* filtered_data['year_month'] = filtered_data['occurrence_date'].dt.strftime('%Y-%m'):
\* a new column of the object bound to filtered_data.
assign_year_month(h) ==
  [h EXCEPT !.flt =
     DataFrame(Append(h.flt.columns, "year_month"),
               [i \in 1..Len(h.flt.rows) |->
                  [c \in DOMAIN h.flt.rows[i] \cup {"year_month"} |->
                     IF c = "year_month" THEN strftime_Ym(h.flt.rows[i].occurrence_date)
                     ELSE h.flt.rows[i][c]]])]

\* The key of a row under groupby(by): its values in the columns of by.
GroupKey(row, by) == [j \in 1..Len(by) |-> row[by[j]]]

\* Lexical order of group keys, column by column.
KeyLess(a, b) ==
  \E j \in 1..Len(a) :
     /\ \A k \in 1..(j - 1) : a[k] = b[k]
     /\ LexLess(a[j], b[j])

RECURSIVE SortedKeys(_)
SortedKeys(K) ==
  IF K = {} THEN << >>
  ELSE LET m == CHOOSE x \in K : \A y \in K \ {x} : KeyLess(x, y)
       IN << m >> \o SortedKeys(K \ {m})

\* groupby(by).size().reset_index(name='count'): one entry per key that occurs,
\* keys ascending; a row with nan in a key column belongs to no group
\* (groupby's dropna=True default).
groupby_size(df, by) ==
  LET keyed == { i \in 1..Len(df.rows) :
                   \A j \in 1..Len(by) : df.rows[i][by[j]] # NaN }
      keys == SortedKeys({ GroupKey(df.rows[i], by) : i \in keyed })
  IN [g \in 1..Len(keys) |->
        [ key |-> keys[g],
          count |-> Cardinality({ i \in keyed : GroupKey(df.rows[i], by) = keys[g] }) ]]

\* sort_values('count', ascending=False): the default kind is quicksort, which
\* is not stable; every order of the entries with counts descending can come out.
sort_values_desc(g) ==
  LET n == Len(g)
      perms == { q \in [1..n -> 1..n] :
                   /\ \A i, j \in 1..n : i # j => q[i] # q[j]
                   /\ \A i, j \in 1..n : i < j => g[q[i]].count >= g[q[j]].count }
  IN { [i \in 1..n |-> g[q[i]]] : q \in perms }

\* head(n)
head(g, n) == SubSeq(g, 1, Min(n, Len(g)))

\* What the tabs compute and hand to the charts.
NoViews ==
  [ monthly_counts |-> << >>, stakeholder_monthly |-> << >>,
    country_counts |-> << >>, country_interaction |-> << >>,
    stakeholder_counts |-> << >>, interaction_counts |-> << >>,
    top_stakeholders |-> << >>, top_msls |-> << >> ]

\* The views of the tabs for a filtered_data that is not empty, one record for
\* each outcome of the two sorts.
TabViews(df) ==
  { [ monthly_counts |-> groupby_size(df, << "year_month", "interaction_type" >>),
      stakeholder_monthly |-> groupby_size(df, << "year_month", "stakeholder_type" >>),
      country_counts |-> groupby_size(df, << "country" >>),
      country_interaction |-> groupby_size(df, << "country", "interaction_type" >>),
      stakeholder_counts |-> groupby_size(df, << "stakeholder_type" >>),
      interaction_counts |-> groupby_size(df, << "interaction_type" >>),
      top_stakeholders |-> head(ts, TopN),
      top_msls |-> head(tm, TopN) ] :
      ts \in sort_values_desc(groupby_size(df, << "stakeholder_names" >>)),
      tm \in sort_values_desc(groupby_size(df, << "msl_names" >>)) }

\* ----------------------------------------------------------------- sample
\* The sample size without the cap of 5.
sample_size_uncapped(df) == Len(df.rows)

\* sample_size = min(5, len(filtered_data))
sample_size(df) == Min(SampleMax, Len(df.rows))

\* DataFrame.sample(n) raises ValueError when n is larger than the population.
sample_raises(df, n) == n > Len(df.rows)

\* DataFrame.sample(n): n distinct rows chosen at random, given by position.
sample(df, n) == { S \in SUBSET (1..Len(df.rows)) : Cardinality(S) = n }

\* ----------------------------------------------------------------- export
NoCsv == [header |-> << >>, records |-> << >>]

\* DataFrame.to_csv(index=False): the header of column names, then the rows.
to_csv(df) == [header |-> df.columns, records |-> df.rows]

\* ------------------------------------------------------------------- page
\* What a run has put on the page: each tab and the text section show their
\* charts, the "no data" st.info, or nothing (the run did not get there).
NoPage == [tab1 |-> "none", tab2 |-> "none", tab3 |-> "none", text |-> "none"]

NoCriteria ==
  [ start_date |-> Timestamp(0), end_date |-> Timestamp(0),
    selected_country |-> All, selected_stakeholder_type |-> All,
    selected_interaction_type |-> All ]

NoOptions ==
  [ countries |-> << >>, stakeholder_types |-> << >>, interaction_types |-> << >> ]

\* One run of the script from line 36 on, given what load_data returned, the
\* session's widget state and whether the export button was clicked: the set of
\* its possible outcomes.
ScriptRun(ld, w, clicked) ==
  LET sb == Sidebar(ld.value, w)
      crit == [ start_date |-> sb.start_date, end_date |-> sb.end_date,
                selected_country |-> sb.selected_country,
                selected_stakeholder_type |-> sb.selected_stakeholder_type,
                selected_interaction_type |-> sb.selected_interaction_type ]
      opts == [ countries |-> sb.countries, stakeholder_types |-> sb.stakeholder_types,
                interaction_types |-> sb.interaction_types ]
      \* The first run gives the date inputs their defaults; afterwards a
      \* widget's value is the user's and a run does not write it.
      wnew == IF w.fresh
              THEN [w EXCEPT !.fresh = FALSE, !.start = sb.start, !.end = sb.end]
              ELSE w
      stopped == [ phase |-> "error", widgets |-> wnew, data |-> ld.value,
                   filtered_data |-> NoFrame, criteria |-> crit, options |-> opts,
                   views |-> NoViews, page |-> NoPage, text_sample |-> {},
                   csv |-> NoCsv ]
  IN IF sb.raised THEN { stopped }
     ELSE
       LET h0 == FilterStage([raw |-> ld.value, flt |-> NoFrame], sb)
           some == ~empty(h0.flt)
           h == IF some THEN assign_year_month(h0) ELSE h0
           n == sample_size(h.flt)
           done == [stopped EXCEPT !.phase = "done", !.data = h.raw,
                                   !.filtered_data = h.flt]
       IN IF ~some
          THEN { [done EXCEPT
                    !.page = [tab1 |-> "info", tab2 |-> "info", tab3 |-> "info",
                              text |-> "info"],
                    !.csv = IF clicked THEN to_csv(h.flt) ELSE NoCsv] }
          ELSE IF sample_raises(h.flt, n)
          THEN { [done EXCEPT
                    !.phase = "error",
                    !.page = [tab1 |-> "charts", tab2 |-> "charts", tab3 |-> "charts",
                              text |-> "none"]] }
          ELSE { [done EXCEPT
                    !.views = v, !.text_sample = smp,
                    !.page = [tab1 |-> "charts", tab2 |-> "charts", tab3 |-> "charts",
                              text |-> "insights"],
                    !.csv = IF clicked THEN to_csv(h.flt) ELSE NoCsv] :
                    v \in TabViews(h.flt), smp \in sample(h.flt, n) }

\* ------------------------------------------------------------------ state
VARIABLES
  file,            \* honeypot_data_Marvel.csv
  cache,           \* what st.cache_data holds for load_data
  widgets,         \* the session's widget state
  export_clicked,  \* the export button was clicked: st.button is True in the next run
  phase,           \* "pending": a run is due; "done": the last run reached the end;
                   \* "error": the last run stopped on an exception
  load_error,      \* the last run shows load_data's st.error
  data,            \* the DataFrame bound to data when the last run ended
  filtered_data,   \* the DataFrame bound to filtered_data when the last run ended
  criteria,        \* start_date, end_date and the selected_* of the last run
  options,         \* countries, stakeholder_types, interaction_types of the last run
  views,           \* the grouped counts the last run handed to the charts
  page,            \* what the last run shows in the tabs and the text section
  text_sample,     \* the rows of filtered_data the last run sampled
  csv              \* the CSV of the download link of the last run

vars ==
  << file, cache, widgets, export_clicked, phase, load_error, data, filtered_data,
     criteria, options, views, page, text_sample, csv >>

\* A rerun starts from an empty namespace and an empty page: every name of the
\* script is unbound until the run binds it again.
Unbound ==
  /\ load_error' = FALSE
  /\ data' = NoFrame
  /\ filtered_data' = NoFrame
  /\ criteria' = NoCriteria
  /\ options' = NoOptions
  /\ views' = NoViews
  /\ page' = NoPage
  /\ text_sample' = {}
  /\ csv' = NoCsv

NoWidgets ==
  [ fresh |-> TRUE, start |-> 0, end |-> 0, country |-> All,
    stakeholder_type |-> All, interaction_type |-> All ]

\* A session opens: nothing is cached, no widget has a value, the first run is due.
Init ==
  /\ file \in Files
  /\ cache = NoCache
  /\ widgets = NoWidgets
  /\ export_clicked = FALSE
  /\ phase = "pending"
  /\ load_error = FALSE
  /\ data = NoFrame
  /\ filtered_data = NoFrame
  /\ criteria = NoCriteria
  /\ options = NoOptions
  /\ views = NoViews
  /\ page = NoPage
  /\ text_sample = {}
  /\ csv = NoCsv

\* One run of the script. load_data raising ends the run before the sidebar.
Run ==
  /\ phase = "pending"
  /\ export_clicked' = FALSE
  /\ UNCHANGED file
  /\ LET ld == cached_load_data(cache, file) IN
     IF ld.raised
     THEN /\ phase' = "error"
          /\ Unbound
          /\ UNCHANGED << cache, widgets >>
     ELSE /\ cache' = [hit |-> TRUE, value |-> ld.value, error_shown |-> ld.error_shown]
          /\ load_error' = ld.error_shown
          /\ \E o \in ScriptRun(ld, widgets, export_clicked) :
                /\ phase' = o.phase
                /\ widgets' = o.widgets
                /\ data' = o.data
                /\ filtered_data' = o.filtered_data
                /\ criteria' = o.criteria
                /\ options' = o.options
                /\ views' = o.views
                /\ page' = o.page
                /\ text_sample' = o.text_sample
                /\ csv' = o.csv

\* The user enters another start date; the date inputs are on the page of every
\* run that loaded the data.
ChangeStartDate ==
  /\ phase \in {"done", "error"}
  /\ ~widgets.fresh
  /\ \E d \in Days :
        /\ d # widgets.start
        /\ widgets' = [widgets EXCEPT !.start = d]
  /\ phase' = "pending"
  /\ Unbound
  /\ UNCHANGED << file, cache, export_clicked >>

\* The user enters another end date.
ChangeEndDate ==
  /\ phase \in {"done", "error"}
  /\ ~widgets.fresh
  /\ \E d \in Days :
        /\ d # widgets.end
        /\ widgets' = [widgets EXCEPT !.end = d]
  /\ phase' = "pending"
  /\ Unbound
  /\ UNCHANGED << file, cache, export_clicked >>

\* The user picks another country; the selector is on the page when the data
\* is not empty and the run went past it.
SelectCountry ==
  /\ phase = "done"
  /\ \E c \in Range(options.countries) :
        /\ c # widgets.country
        /\ widgets' = [widgets EXCEPT !.country = c]
  /\ phase' = "pending"
  /\ Unbound
  /\ UNCHANGED << file, cache, export_clicked >>

\* The user picks another stakeholder type.
SelectStakeholderType ==
  /\ phase = "done"
  /\ \E c \in Range(options.stakeholder_types) :
        /\ c # widgets.stakeholder_type
        /\ widgets' = [widgets EXCEPT !.stakeholder_type = c]
  /\ phase' = "pending"
  /\ Unbound
  /\ UNCHANGED << file, cache, export_clicked >>

\* The user picks another interaction type.
SelectInteractionType ==
  /\ phase = "done"
  /\ ~empty(data)
  /\ \E c \in Range(options.interaction_types) :
        /\ c # widgets.interaction_type
        /\ widgets' = [widgets EXCEPT !.interaction_type = c]
  /\ phase' = "pending"
  /\ Unbound
  /\ UNCHANGED << file, cache, export_clicked >>

\* The user clicks "Export Filtered Data to CSV".
ClickExport ==
  /\ phase = "done"
  /\ export_clicked' = TRUE
  /\ phase' = "pending"
  /\ Unbound
  /\ UNCHANGED << file, cache, widgets >>

Next ==
  \/ Run
  \/ ChangeStartDate
  \/ ChangeEndDate
  \/ SelectCountry
  \/ SelectStakeholderType
  \/ SelectInteractionType
  \/ ClickExport

Spec == Init /\ [][Next]_vars

\* ------------------------------------------------- the filter on its own
\* The records of the filter's own specification: the base record and the
\* records that differ from it in one of the columns the filter reads.
FilterRows ==
  {BaseRow}
  \cup { [BaseRow EXCEPT !.occurrence_date = [day |-> d, tod |-> t]] :
           d \in Days, t \in TimesOfDay }
  \cup { [BaseRow EXCEPT !.country = v] : v \in {"US", NaN} }
  \cup { [BaseRow EXCEPT !.stakeholder_type = v] : v \in {NaN} }
  \cup { [BaseRow EXCEPT !.interaction_type = v] : v \in {"Email"} }

\* Every criteria the filter can be handed: the bounds are midnights (lines 55
\* and 56), a selector holds "All", a value or nan.
CriteriaSpace ==
  [ start_date : { Timestamp(d) : d \in Days },
    end_date : { Timestamp(d) : d \in Days },
    selected_country : {All, "FR", "US", NaN},
    selected_stakeholder_type : {All, "HCP", NaN},
    selected_interaction_type : {All, "Call", "Email"} ]

\* Any loaded dataset and any criteria, the filter not yet applied.
InitFilter ==
  /\ file \in { [kind |-> "ok", rows |-> rs] : rs \in SeqsUpTo(FilterRows, MaxRows) }
  /\ cache = [hit |-> TRUE, value |-> DataFrame(ExpectedColumns, file.rows),
              error_shown |-> FALSE]
  /\ widgets = NoWidgets
  /\ export_clicked = FALSE
  /\ phase = "pending"
  /\ load_error = FALSE
  /\ data = cache.value
  /\ filtered_data = NoFrame
  /\ criteria \in CriteriaSpace
  /\ options = NoOptions
  /\ views = NoViews
  /\ page = NoPage
  /\ text_sample = {}
  /\ csv = NoCsv

\* Lines 81 to 97 applied to data under the criteria.
ApplyFilter ==
  /\ phase = "pending"
  /\ LET h == FilterStage([raw |-> data, flt |-> NoFrame], criteria) IN
       /\ data' = h.raw
       /\ filtered_data' = h.flt
  /\ phase' = "done"
  /\ UNCHANGED << file, cache, widgets, export_clicked, load_error, criteria,
                  options, views, page, text_sample, csv >>

NextFilter == ApplyFilter

SpecFilter == InitFilter /\ [][NextFilter]_vars

\* ----------------------------------------------------------------- claims
\* The part of a row the dataset gave it (year_month is the script's own column).
Loaded(rows) ==
  [i \in 1..Len(rows) |->
     [c \in DOMAIN rows[i] \ {"year_month"} |-> rows[i][c]]]

\* A missing value equals no selected value.
FieldIs(v, x) == v # NaN /\ v = x

\* A record satisfies every active constraint of the criteria c.
Satisfies(r, c) ==
  /\ TsLe(c.start_date, r.occurrence_date)
  /\ TsLe(r.occurrence_date, c.end_date)
  /\ (c.selected_country # All => FieldIs(r.country, c.selected_country))
  /\ (c.selected_stakeholder_type # All
        => FieldIs(r.stakeholder_type, c.selected_stakeholder_type))
  /\ (c.selected_interaction_type # All
        => FieldIs(r.interaction_type, c.selected_interaction_type))

\* The subsequence of rows that satisfy c, in their order.
Subsequence(rows, c) ==
  LET Test(r) == Satisfies(r, c) IN SelectSeq(rows, Test)

\* The run got past the three selectors (line 74 or 77 bound interaction_types).
SelectorsBuilt == options.interaction_types # << >>

RECURSIVE SumCounts(_)
SumCounts(g) == IF g = << >> THEN 0 ELSE Head(g).count + SumCounts(Tail(g))

\* C1: for every loaded record set and every criteria, the filtered set is the
\* subsequence, in the original order and with the dataset's columns, of the
\* records with start_date <= occurrence_date <= end_date that carry the selected
\* value in every column whose selector is not "All"; with start_date after
\* end_date it is empty, and the filter raises nothing.
C1_FilterIsTheConjunctiveSubsequence ==
  phase = "done" =>
    /\ filtered_data.rows = Subsequence(cache.value.rows, criteria)
    /\ filtered_data.columns = cache.value.columns
    /\ (~TsLe(criteria.start_date, criteria.end_date) => empty(filtered_data))

\* A filter that kept some records and dropped others, a missing value among
\* the records and a selector set.
C1_Witness ==
  /\ phase = "done"
  /\ criteria.selected_country # All
  /\ \E i \in 1..Len(data.rows) : data.rows[i].country = NaN
  /\ Len(filtered_data.rows) > 0
  /\ Len(filtered_data.rows) < Len(data.rows)

\* C2: the counts of every view grouped by one key, and of the two
\* month-by-category views, sum to the number of records of the filtered set.
C2_CountsSumToTheFilteredSet ==
  page.tab1 = "charts" =>
    \A v \in { views.country_counts, views.stakeholder_counts,
               views.interaction_counts, views.monthly_counts,
               views.stakeholder_monthly } :
       SumCounts(v) = Len(filtered_data.rows)

\* The groups of a column as the claim orders them: counts descending, equal
\* counts by name ascending.
ClaimedTop(rows, col) ==
  LET names == { rows[i][col] : i \in 1..Len(rows) } \ {NaN}
      G == { [ key |-> << v >>,
               count |-> Cardinality({ i \in 1..Len(rows) : rows[i][col] = v }) ] :
             v \in names }
      n == Cardinality(G)
      ordered == CHOOSE q \in [1..n -> G] :
                   \A i, j \in 1..n :
                      i < j => \/ q[i].count > q[j].count
                               \/ /\ q[i].count = q[j].count
                                  /\ LexLess(q[i].key[1], q[j].key[1])
  IN SubSeq(ordered, 1, Min(TopN, n))

\* C3: the top stakeholders and the top MSLs are the first min(10, groups)
\* groups of the filtered set by count descending, equal counts in ascending
\* lexical order of the name.
C3_TopViewsBreakTiesLexically ==
  page.tab3 = "charts" =>
    /\ views.top_stakeholders = ClaimedTop(filtered_data.rows, "stakeholder_names")
    /\ views.top_msls = ClaimedTop(filtered_data.rows, "msl_names")

\* C4: over data with a record whose country, stakeholder type or interaction
\* type is missing, building and applying the selectors raises nothing, and the
\* record is dropped exactly by a selector of its missing column that is not "All".
C4_MissingValuesRaiseNothing ==
  (/\ phase # "pending"
   /\ \E i \in 1..Len(data.rows) :
         NaN \in { data.rows[i].country, data.rows[i].stakeholder_type,
                   data.rows[i].interaction_type })
  => /\ phase = "done"
     /\ Loaded(filtered_data.rows) = Subsequence(data.rows, criteria)

\* C5: when the file is absent, unreadable or malformed, load_data returns the
\* empty record set with the expected columns and shows an error; the run goes
\* on with it and no exception leaves load_data.
C5_LoadFailureFallsBack ==
  (phase # "pending" /\ file.kind # "ok") =>
    /\ cache.hit
    /\ data = DataFrame(ExpectedColumns, << >>)
    /\ load_error
    /\ phase = "done"

\* A run over a file whose dates do not parse.
C5_Witness ==
  /\ phase = "done"
  /\ file.kind = "baddate"
  /\ load_error
  /\ empty(data)

\* C6: a run whose filtered set is empty reaches its end, makes no view, samples
\* nothing and shows "no data" in the three tabs and the text section; a run
\* whose filtered set is not empty samples min(5, size) records.
C6_EmptyFilteredSetShowsNoData ==
  (phase # "pending" /\ SelectorsBuilt) =>
    /\ empty(filtered_data) =>
         /\ phase = "done"
         /\ views = NoViews
         /\ text_sample = {}
         /\ page = [tab1 |-> "info", tab2 |-> "info", tab3 |-> "info", text |-> "info"]
    /\ ~empty(filtered_data) =>
         /\ Cardinality(text_sample) = Min(SampleMax, Len(filtered_data.rows))
         /\ text_sample \subseteq 1..Len(filtered_data.rows)

\* A run over loaded records that the criteria filter down to none.
C6_Witness ==
  /\ phase = "done"
  /\ ~empty(data)
  /\ empty(filtered_data)
  /\ page.text = "info"

\* A run whose filtered set has more records than the sample takes.
C6_WitnessCapped ==
  /\ phase = "done"
  /\ Len(filtered_data.rows) > SampleMax
  /\ Cardinality(text_sample) = SampleMax

\* C7: the exported CSV has exactly the columns of the loaded dataset and
\* exactly the records of the filtered set.
C7_ExportKeepsTheLoadedColumns ==
  csv # NoCsv =>
    /\ csv.header = cache.value.columns
    /\ csv.records = Subsequence(cache.value.rows, criteria)

\* C8: a run leaves the loaded record set as it was loaded: same records, same
\* order, same columns and values.
C8_RunLeavesTheDataUnchanged ==
  (phase # "pending" /\ cache.hit) => data = cache.value

\* A run that filtered some records out and added its month column to the rest.
C8_Witness ==
  /\ phase = "done"
  /\ Len(filtered_data.rows) > 0
  /\ Len(filtered_data.rows) < Len(data.rows)
  /\ "year_month" \in Range(filtered_data.columns)
  /\ data = cache.value

\* The criteria the widgets hold now.
CurrentCriteria ==
  [ start_date |-> Timestamp(widgets.start), end_date |-> Timestamp(widgets.end),
    selected_country |-> widgets.country,
    selected_stakeholder_type |-> widgets.stakeholder_type,
    selected_interaction_type |-> widgets.interaction_type ]

\* What a finished run shows was computed from the widgets' current values over
\* the loaded data.
C9_Current ==
  (phase # "pending" /\ cache.hit) =>
    /\ criteria = CurrentCriteria
    /\ SelectorsBuilt =>
         Loaded(filtered_data.rows) = Subsequence(cache.value.rows, CurrentCriteria)
    /\ IF empty(filtered_data) THEN views = NoViews
       ELSE views \in TabViews(filtered_data)

\* C9: a change of a widget's value schedules a run, the run is the next thing
\* that happens and it leaves the user's values alone, and the filtered set and
\* the views a finished run shows are those of the widgets' current values over
\* the loaded data.
C9_EveryChangeIsFollowedByOneRun ==
  /\ []C9_Current
  /\ [][(phase # "pending" /\ widgets' # widgets) => phase' = "pending"]_vars
  /\ [][phase = "pending" => phase' # "pending"]_vars
  /\ [][(phase = "pending" /\ ~widgets.fresh) => widgets' = widgets]_vars

\* A run after the user moved the start date off its default and picked a
\* country.
C9_Witness ==
  /\ phase = "done"
  /\ widgets.start # min_date(data)
  /\ widgets.country # All
  /\ ~empty(filtered_data)

\* C10: with the default criteria (the dates of the earliest and the latest
\* occurrence_date, every selector "All") the filtered set is the whole loaded
\* record set.
C10_DefaultCriteriaKeepEveryRecord ==
  (/\ phase # "pending"
   /\ SelectorsBuilt
   /\ ~empty(data)
   /\ criteria = [ start_date |-> Timestamp(min_date(data)),
                   end_date |-> Timestamp(max_date(data)),
                   selected_country |-> All, selected_stakeholder_type |-> All,
                   selected_interaction_type |-> All ])
  => Loaded(filtered_data.rows) = data.rows


====
